---- MODULE Spec2Model ----
(***************************************************************************)
(* Dentist IVR: the webhook-driven call flow (Start, LanguageSelect,      *)
(* Collect), the recording download, the transcription provider chain,    *)
(* the intent extraction and the calendar commit, as coded in             *)
(* api/voice_v2.js, api/voice.js, server.js and the hf-only voice_v2       *)
(* variant.  One request is handled at a time; external calls are         *)
(* nondeterministic choices over the replies they can give.  Further      *)
(* specifications cover two concurrent requests, a callback delivered     *)
(* several times, the token routes and the audio endpoint.                *)
(***************************************************************************)
EXTENDS Integers, Sequences, FiniteSets, TLC

(* ------------------------------------------------------------------ *)
(* Bounds of the model                                                 *)
(* ------------------------------------------------------------------ *)
\* most words of a recognized-speech field
MaxWords == 1
\* most "model is loading" (503) replies Hugging Face gives for one utterance
MaxLoading == 3
\* last millisecond of the clock two concurrent requests read
MaxClock == 2
\* most deliveries of one Collect callback
MaxDeliveries == 2

(* ------------------------------------------------------------------ *)
(* Program constants                                                   *)
(* ------------------------------------------------------------------ *)
\* the year `new Date().getFullYear()` returns while the model runs
CurrentYear == 2025
\* `while (attempts < 30)` of the Gladia polling loop
MaxPolls == 30

\* handler versions: voice_v2.js, the Hugging-Face-only voice_v2, the two
\* versions kept in voice.js, and the express server
Variants == {"v2", "v2hf", "voice", "voice1", "server"}

\* words a caller can say; the model keeps the case of the first letter
Vocabulary == {"Francais", "francais", "Ivrit", "ivrit", "he_script", "hebrew", "hello"}

\* String.prototype.toLowerCase, word by word
ToLower(w) ==
    CASE w = "Francais" -> "francais"
      [] w = "Ivrit" -> "ivrit"
      [] OTHER -> w

\* keyword kw is a substring of word w (case-sensitive, as String.includes)
Contains(w, kw) ==
    \/ kw = "fran" /\ w = "francais"
    \/ kw = "ivrit" /\ w = "ivrit"
    \/ kw = "he_script" /\ w = "he_script"
    \/ kw = "hebrew" /\ w = "hebrew"

\* a text is the set of its words; the empty set is the empty string
Texts == {t \in SUBSET Vocabulary : Cardinality(t) <= MaxWords}

\* (req.body.SpeechResult || "").toLowerCase()
LowerCased(speech) ==
    IF speech.present THEN {ToLower(w) : w \in speech.words} ELSE {}

\* speech.includes(kw)
Includes(text, kw) == \E w \in text : Contains(w, kw)

\* a form field that may be absent
Absent == [present |-> FALSE, words |-> {}]
SpeechValues == {Absent} \cup {[present |-> TRUE, words |-> t] : t \in Texts}

\* what a caller says to Collect: nothing, the empty string, a sentence, or a
\* sentence introducing the caller in French or in English
UtteranceValues ==
    {Absent} \cup {[present |-> TRUE, words |-> t] :
                     t \in {{}, {"hello"}, {"je suis Jean"}, {"my name is Jean"}}}

DigitValues == {"none", "1", "2", "3", "9"}
StepValues == {"none", "start", "lang", "collect", "bogus"}
LangValues == {"none", "1", "2", "3", "9"}

(* ------------------------------------------------------------------ *)
(* State                                                               *)
(* ------------------------------------------------------------------ *)
VARIABLES
    variant,       \* the handler version the calls are routed to
    visited,       \* steps of the requests handled so far in the current call
    follows,       \* every request of the call came from the previous callback
    req,           \* the request being handled
    pc,            \* position of the handler
    vr,            \* the VoiceResponse under construction (sequence of verbs)
    sent,          \* responses sent for the current request
    escaped,       \* an exception left the handler
    key,           \* the language key LanguageSelect resolved
    utterance,     \* the text Collect works on
    transcription, \* `transcription` of transcribeAudioFromTwilio
    returned,      \* what transcribeAudioFromTwilio returned, when it has
    dl,            \* outcomes of the recording download attempts
    tempFile,      \* the temporary recording: "none", "written", "removed"
    chainPos,      \* index of the provider the chain is at
    calls,         \* providers the chain has invoked, in order
    results,       \* what each invoked provider returned, in order
    running,       \* providers whose call has not returned yet
    hfFetches,     \* requests made to the Hugging Face endpoint
    extractCalls,  \* calls made to the generative model
    path,          \* extraction path taken: "none", "primary", "fallback"
    whenISO,       \* the start time extracted
    name,          \* the patient name extracted
    inserts,       \* calendar insert calls submitted for the current request
    dateIso,       \* data.date_iso of the model's reply, when it parsed
    chronoCall,    \* the chrono.parseDate call of the fallback, when made
    insertResult,  \* how the insert call ended: "none", "ok", "reject"
    minutesEnv,    \* process.env.DEFAULT_APPT_MINUTES as the commit read it
    event,         \* the requestBody handed to calendar.events.insert
    deliveries,    \* deliveries of the current callback handled or in hand
    accepted,      \* insert calls of those deliveries the calendar accepted
    created,       \* the events the calendar holds from those deliveries
    hfToken,       \* `hfToken` of the running transcribeWithHuggingFace
    gladiaKey,     \* `gladiaKey` of the running transcribeWithGladia
    attempts,      \* `attempts` of the Gladia polling loop
    poll,          \* `statusData` of the last poll of the running loop
    now,           \* Date.now() of the process serving two concurrent requests
    tmp,           \* /tmp: the recording each temporary file holds, by file name
    cpc,           \* position of each concurrent request in transcribeAudioFromTwilio
    cfile,         \* `tempFile` of each concurrent request
    cheard,        \* the recording each concurrent request had transcribed
    cret,          \* what transcribeAudioFromTwilio returned to each of them
    tokenRoute,    \* the token route a request addresses
    credentials,   \* the platform credentials the environment defines
    tpc,           \* position of the token handler
    tokenReply,    \* the reply of the token route: status and whether it holds a token
    assets,        \* the prompts deployed in the audio directory
    file,          \* req.query.file of a request to the audio endpoint
    apc,           \* position of the audio handler
    filePath,      \* `filePath` of the audio handler
    audioReply     \* the reply of the audio endpoint

callVars == <<variant, visited, follows>>
respVars == <<vr, sent, escaped>>
acqVars == <<utterance, transcription, returned, dl, tempFile, chainPos, calls,
             results, running, hfFetches>>
bookVars == <<extractCalls, path, whenISO, name, inserts, dateIso, chronoCall,
              insertResult, minutesEnv, event>>
calendarVars == <<deliveries, accepted, created>>
localVars == <<hfToken, gladiaKey, attempts, poll>>
mainVars == <<variant, visited, follows, req, pc, vr, sent, escaped, key, utterance,
          transcription, returned, dl, tempFile, chainPos, calls, results,
          running, hfFetches, extractCalls, path, whenISO, name, inserts,
          dateIso, chronoCall, insertResult, minutesEnv, event, deliveries,
          accepted, created, hfToken, gladiaKey, attempts, poll>>
concVars == <<now, tmp, cpc, cfile, cheard, cret>>
tokenVars == <<tokenRoute, credentials, tpc, tokenReply>>
audioVars == <<assets, file, apc, filePath, audioReply>>
sideVars == <<concVars, tokenVars, audioVars>>
otherVars == <<sideVars, calendarVars, localVars>>
vars == <<mainVars, sideVars>>

NoReq == [method |-> "none", step |-> "none", lang |-> "none", digits |-> "none",
          speech |-> Absent, recordingUrl |-> FALSE, from |-> ""]

(* ------------------------------------------------------------------ *)
(* Voice markup                                                        *)
(* ------------------------------------------------------------------ *)
NoAction == [step |-> "none", lang |-> "none", target |-> "none"]

\* every version writes the prefix of voice.js
EndpointOfVoice(v) == IF v = "server" THEN "/" ELSE "/api/voice"

\* the URL prefix each version writes into its callbacks
Endpoint(v) ==
    CASE v \in {"v2", "v2hf"} -> "/api/voice_v2"
      [] v \in {"voice", "voice1"} -> "/api/voice"
      [] OTHER -> "/"

\* verbs: `text` names the message or asset, `who` the name spoken in it
Say(language, text) ==
    [verb |-> "say", language |-> language, text |-> text, who |-> "none",
     action |-> NoAction]
SayTo(language, text, who) ==
    [verb |-> "say", language |-> language, text |-> text, who |-> who,
     action |-> NoAction]
Play(asset) ==
    [verb |-> "play", language |-> "none", text |-> asset, who |-> "none",
     action |-> NoAction]
Gather(input, language, action) ==
    [verb |-> "gather", language |-> language, text |-> input, who |-> "none",
     action |-> action]
Record(action) ==
    [verb |-> "record", language |-> "none", text |-> "none", who |-> "none",
     action |-> action]

\* the callbacks a response names
Callbacks(verbs) ==
    {verbs[i].action : i \in {j \in 1..Len(verbs) : verbs[j].action # NoAction}}

\* the language each key stands for in a version (server.js numbers them
\* Hebrew, English, French; the voice handlers English, French, Hebrew)
LangOfKey(v, k) ==
    IF v = "server"
    THEN CASE k = "1" -> "he" [] k = "2" -> "en" [] k = "3" -> "fr" [] OTHER -> "none"
    ELSE CASE k = "1" -> "en" [] k = "2" -> "fr" [] k = "3" -> "he" [] OTHER -> "none"

Locale(l) ==
    CASE l = "en" -> "en-US" [] l = "fr" -> "fr-FR" [] l = "he" -> "he-IL"
      [] OTHER -> "none"

\* a handler that takes every request for a Collect request
StepOfCollect(r) == "collect"

\* step = req.query.step || "start"
StepOf(r) == IF r.step = "none" THEN "start" ELSE r.step

\* the prompt of the Start step
StartVerbs(v) ==
    IF v = "server"
    THEN << Gather("speech dtmf", "none", [step |-> "lang", lang |-> "none", target |-> Endpoint(v)]),
            Say("none", "menu") >>
    ELSE << Gather("speech dtmf", "none", [step |-> "lang", lang |-> "none", target |-> Endpoint(v)]),
            Say("en-US", "press1"), Say("fr-FR", "press2"), Play("press-3-he.mp3") >>

\* mutant: the Hebrew-script keyword is not looked for
SelectKeyVoiceNoScript(digits, speech) ==
    IF digits = "2" \/ Includes(speech, "fran") THEN "2"
    ELSE IF digits = "3" \/ Includes(speech, "ivrit") THEN "3"
         ELSE "1"

\* let key = "1"; if (digits === "2" || speech.includes("fran")) key = "2";
\* else if (digits === "3" || speech.includes("ivrit") || ...) key = "3";
SelectKeyVoice(digits, speech) ==
    IF digits = "2" \/ Includes(speech, "fran") THEN "2"
    ELSE IF digits = "3" \/ Includes(speech, "ivrit") \/ Includes(speech, "he_script")
         THEN "3"
         ELSE "1"

\* let key = "2"; if (LANGS[digits]) key = digits; else if (ivrit|hebrew) key = "1";
\* else if (fran) key = "3";
SelectKeyServer(digits, speech) ==
    IF digits \in {"1", "2", "3"} THEN digits
    ELSE IF Includes(speech, "ivrit") \/ Includes(speech, "hebrew") THEN "1"
    ELSE IF Includes(speech, "fran") THEN "3"
    ELSE "2"

SelectKey(v, digits, speech) ==
    IF v = "server" THEN SelectKeyServer(digits, speech)
    ELSE SelectKeyVoice(digits, speech)

\* mutant: the LanguageSelect response calls LanguageSelect back
CollectActionBackToLang(v, k) == [step |-> "lang", lang |-> k, target |-> Endpoint(v)]

\* the callback of the LanguageSelect response
CollectAction(v, k) == [step |-> "collect", lang |-> k, target |-> Endpoint(v)]

\* a LanguageSelect step that gathers speech for every key
LangVerbsGatherOnly(v, k) ==
    << Gather("speech", Locale(LangOfKey(v, k)), CollectAction(v, k)),
       Say(Locale(LangOfKey(v, k)), "prompt") >>

\* the prompt of the LanguageSelect step for key k
LangVerbs(v, k) ==
    IF v = "server"
    THEN << Gather("speech", Locale(LangOfKey(v, k)), CollectAction(v, k)),
            Say(Locale(LangOfKey(v, k)), "prompt") >>
    ELSE IF k = "3"
         THEN << Play("welcome-he.mp3"), Record(CollectAction(v, k)) >>
         ELSE << Gather("speech", Locale(LangOfKey(v, k)), CollectAction(v, k)),
                 Say(Locale(LangOfKey(v, k)), "prompt") >>

Xml(verbs) == [status |-> 200, ctype |-> "text/xml", verbs |-> verbs]
MethodNotAllowed == [status |-> 405, ctype |-> "text/html", verbs |-> <<>>]


(* ------------------------------------------------------------------ *)
(* Dates and extractor replies                                         *)
(* ------------------------------------------------------------------ *)
Years == {CurrentYear - 1, CurrentYear, CurrentYear + 1}

\* leap years of the Gregorian calendar, which the JS Date follows
IsLeapYear(y) == (y % 4 = 0 /\ y % 100 # 0) \/ y % 400 = 0

\* days of month m of year y
DaysInMonth(y, m) ==
    IF m = 2 THEN (IF IsLeapYear(y) THEN 29 ELSE 28)
    ELSE IF m \in {4, 6, 9, 11} THEN 30 ELSE 31

NoDate == [kind |-> "none", year |-> 0, month |-> 0, day |-> 0]
\* data.date_iso missing from the reply
UndefinedDate == [kind |-> "undefined", year |-> 0, month |-> 0, day |-> 0]
\* a date_iso string `new Date` cannot parse
InvalidDate == [kind |-> "invalid", year |-> 0, month |-> 0, day |-> 0]
\* a valid instant: 15 June of year y, and 29 February of a leap year
DateOf(y) == [kind |-> "date", year |-> y, month |-> 6, day |-> 15]
LeapDay(y) == [kind |-> "date", year |-> y, month |-> 2, day |-> 29]
\* the valid instants a reply or a parse can name
Dates == {DateOf(y) : y \in Years} \cup {LeapDay(y) : y \in {z \in Years : IsLeapYear(z)}}

\* mutant: a day the month does not have is clamped to the month's last day
SetFullYearClamped(d, y) ==
    IF d.day > DaysInMonth(y, d.month)
    THEN [d EXCEPT !.year = y, !.day = DaysInMonth(y, d.month)]
    ELSE [d EXCEPT !.year = y]

\* Date.prototype.setFullYear(y): month and day of month are kept, and a day
\* the month does not have in year y rolls over into the next month
SetFullYear(d, y) ==
    IF d.day > DaysInMonth(y, d.month)
    THEN [d EXCEPT !.year = y, !.month = d.month + 1, !.day = d.day - DaysInMonth(y, d.month)]
    ELSE [d EXCEPT !.year = y]
\* new Date(Date.now() + 24 * 3600 * 1000)
Tomorrow == DateOf(CurrentYear)

\* what openai.chat.completions.create gives: a thrown error, text that
\* JSON.parse rejects, the JSON value null, or a JSON object
Replies ==
    {[kind |-> k, date |-> NoDate, name |-> "none"] : k \in {"throw", "malformed", "null"}}
    \cup [kind : {"json"},
          date : {UndefinedDate, InvalidDate} \cup Dates,
          name : {"none", "Jean"}]

\* what chrono.parseDate gives: null or a date
ChronoResults == {NoDate} \cup {DateOf(y) : y \in Years}

\* what chrono.parseDate gives for a text: null when there is nothing to parse
ChronoOn(text) == IF text = {} THEN {NoDate} ELSE ChronoResults

\* texts a transcription provider can return on success
ProviderTexts == {{"hello"}, {"he_script"}}

NotReturned == [done |-> FALSE, value |-> {}]

\* no chrono.parseDate call was made
NoChrono == [ran |-> FALSE, forwardDate |-> FALSE, result |-> NoDate]

(* ------------------------------------------------------------------ *)
(* Initial state and request arrival                                   *)
(* ------------------------------------------------------------------ *)
\* two requests served by one process, and the file names Date.now() can give
Calls == {"a", "b"}
Stamps == 1..MaxClock

\* no concurrent request has started and /tmp holds no recording
ConcIdle ==
    /\ now = 1
    /\ tmp = [t \in Stamps |-> "none"]
    /\ cpc = [c \in Calls |-> "start"]
    /\ cfile = [c \in Calls |-> 0]
    /\ cheard = [c \in Calls |-> "none"]
    /\ cret = [c \in Calls |-> "none"]

\* no request has reached the token route, or the audio endpoint
NoTokenReply == [status |-> 0, token |-> FALSE]
NoAudioReply == [status |-> 0, type |-> "none", body |-> <<>>]

\* no poll was made
NoPoll == [status |-> "none", text |-> {}]

\* nothing was handed to the calendar
NoEvent == [summary |-> "none", start |-> 0, end |-> 0, description |-> <<>>]

Init ==
    /\ ConcIdle
    /\ tokenRoute = "none"
    /\ credentials = {}
    /\ tpc = "idle"
    /\ tokenReply = NoTokenReply
    /\ assets = {}
    /\ file = <<>>
    /\ apc = "idle"
    /\ filePath = <<>>
    /\ audioReply = NoAudioReply
    /\ minutesEnv = "unread"
    /\ event = NoEvent
    /\ hfToken = "unread"
    /\ gladiaKey = "unread"
    /\ attempts = 0
    /\ poll = NoPoll
    /\ deliveries = 0
    /\ accepted = 0
    /\ created = <<>>
    /\ variant \in Variants
    /\ visited = <<>>
    /\ follows = TRUE
    /\ req = NoReq
    /\ pc = "idle"
    /\ vr = <<>>
    /\ sent = <<>>
    /\ escaped = FALSE
    /\ key = "none"
    /\ utterance = {}
    /\ transcription = {}
    /\ returned = NotReturned
    /\ dl = <<>>
    /\ tempFile = "none"
    /\ chainPos = 0
    /\ calls = <<>>
    /\ results = <<>>
    /\ running = {}
    /\ hfFetches = 0
    /\ extractCalls = 0
    /\ path = "none"
    /\ whenISO = NoDate
    /\ name = "none"
    /\ inserts = 0
    /\ dateIso = NoDate
    /\ chronoCall = NoChrono
    /\ insertResult = "none"

\* the requests a client can make; the form fields and query parameters the
\* addressed step does not read are left out
Fields(m, steps, langs, digits, speeches, recs, froms) ==
    [method : {m}, step : steps, lang : langs, digits : digits,
     speech : speeches, recordingUrl : recs, from : froms]

\* req.body.From || "": the caller's number, "" when the field is absent
FromValues == {"", "+15550100"}

Requests(v) ==
    Fields("POST", {"start"}, {"none"}, {"none"}, {Absent}, {FALSE}, {""})
    \cup Fields("POST", {"lang"}, {"none"}, DigitValues, SpeechValues, {FALSE}, {""})
    \cup Fields("POST", {"collect"}, LangValues, {"none"}, UtteranceValues, BOOLEAN,
                {"+15550100"})
    \cup Fields("POST", {"collect"}, {"1"}, {"none"}, UtteranceValues, {FALSE}, FromValues)
    \cup (IF v = "server" THEN {}
          ELSE Fields("POST", {"none", "bogus"}, {"none"}, {"none"}, {Absent}, {FALSE}, {""})
               \cup Fields("GET", StepValues \ {"collect"}, {"none"}, {"none"}, {Absent},
                           {FALSE}, {""})
               \cup Fields("GET", {"collect"}, LangValues, {"none"}, {Absent}, {FALSE},
                           {""}))

\* the callback the platform is to follow after the last response
LastCallbacks == IF sent = <<>> THEN {} ELSE Callbacks(sent[Len(sent)].verbs)

\* request r is the one the platform makes next in the current call
FollowsCallback(r) ==
    /\ r.method = "POST"
    /\ IF visited = <<>>
       THEN r.step = (IF variant = "server" THEN "start" ELSE "none") /\ r.lang = "none"
       ELSE \E cb \in LastCallbacks : r.step = cb.step /\ r.lang = cb.lang

ResetRequest ==
    /\ vr' = <<>>
    /\ sent' = <<>>
    /\ escaped' = FALSE
    /\ key' = "none"
    /\ utterance' = {}
    /\ transcription' = {}
    /\ returned' = NotReturned
    /\ dl' = <<>>
    /\ tempFile' = "none"
    /\ chainPos' = 0
    /\ calls' = <<>>
    /\ results' = <<>>
    /\ running' = {}
    /\ hfFetches' = 0
    /\ extractCalls' = 0
    /\ path' = "none"
    /\ whenISO' = NoDate
    /\ name' = "none"
    /\ inserts' = 0
    /\ dateIso' = NoDate
    /\ chronoCall' = NoChrono
    /\ insertResult' = "none"
    /\ minutesEnv' = "unread"
    /\ event' = NoEvent
    /\ hfToken' = "unread"
    /\ gladiaKey' = "unread"
    /\ attempts' = 0
    /\ poll' = NoPoll

\* a callback is delivered for the first time: the calendar is watched from here
FirstDelivery ==
    /\ deliveries' = 1
    /\ accepted' = 0
    /\ created' = <<>>

\* the telephony platform posts the next request of the call
PlatformRequest ==
    /\ pc \in {"idle", "done"}
    /\ follows
    /\ \E r \in Requests(variant) :
        /\ FollowsCallback(r)
        /\ req' = r
        /\ visited' = Append(visited, StepOf(r))
    /\ pc' = "handler"
    /\ ResetRequest
    /\ FirstDelivery
    /\ UNCHANGED <<variant, follows, sideVars>>

\* any other client posts a request of its own making
DirectRequest ==
    /\ pc = "idle"
    /\ \E r \in Requests(variant) : req' = r
    /\ visited' = <<>>
    /\ follows' = FALSE
    /\ pc' = "handler"
    /\ ResetRequest
    /\ FirstDelivery
    /\ UNCHANGED <<variant, sideVars>>

\* the call is over; the next request opens a new call
EndCall ==
    /\ pc = "done"
    /\ visited' = <<>>
    /\ follows' = TRUE
    /\ req' = NoReq
    /\ pc' = "idle"
    /\ ResetRequest
    /\ deliveries' = 0
    /\ accepted' = 0
    /\ created' = <<>>
    /\ UNCHANGED <<variant, sideVars>>

(* ------------------------------------------------------------------ *)
(* handler: method check and the Start and LanguageSelect steps        *)
(* ------------------------------------------------------------------ *)
\* a handler that answers every method with the prompt of the Start step
HandlerAnyMethod ==
    /\ pc = "handler"
    /\ req.method # "POST"
    /\ vr' = StartVerbs(variant)
    /\ sent' = Append(sent, Xml(vr'))
    /\ pc' = "done"
    /\ UNCHANGED <<otherVars, callVars, req, escaped, key, acqVars, bookVars>>

\* if (req.method !== "POST") return res.status(405).send("Method Not Allowed")
HandlerNotPost ==
    /\ pc = "handler"
    /\ req.method # "POST"
    /\ sent' = Append(sent, MethodNotAllowed)
    /\ pc' = "done"
    /\ UNCHANGED <<otherVars, callVars, req, vr, escaped, key, acqVars, bookVars>>

\* if (step === "start") { gather ...; res.send(vr.toString()); return; }
HandlerStart ==
    /\ pc = "handler"
    /\ req.method = "POST"
    /\ StepOf(req) = "start"
    /\ vr' = StartVerbs(variant)
    /\ sent' = Append(sent, Xml(vr'))
    /\ pc' = "done"
    /\ UNCHANGED <<otherVars, callVars, req, escaped, key, acqVars, bookVars>>

\* if (step === "lang") { key = ...; gather or record; res.send; return; }
HandlerLang ==
    /\ pc = "handler"
    /\ req.method = "POST"
    /\ StepOf(req) = "lang"
    /\ key' = SelectKey(variant, req.digits, LowerCased(req.speech))
    /\ vr' = LangVerbs(variant, key')
    /\ sent' = Append(sent, Xml(vr'))
    /\ pc' = "done"
    /\ UNCHANGED <<otherVars, callVars, req, escaped, acqVars, bookVars>>

\* no `if (step === ...)` matches: the try block ends and the function returns
HandlerNoStep ==
    /\ pc = "handler"
    /\ req.method = "POST"
    /\ StepOf(req) \notin {"start", "lang", "collect"}
    /\ pc' = "done"
    /\ UNCHANGED <<otherVars, callVars, req, respVars, key, acqVars, bookVars>>

\* catch (err) of the handler: the generic apology
HandlerCatch ==
    /\ pc = "fatal"
    /\ vr' = IF variant \in {"v2", "v2hf"}
             THEN << Say("en-US", "apology_fatal") >>
             ELSE Append(vr, Say("en-US", "apology_fatal"))
    /\ sent' = Append(sent, Xml(vr'))
    /\ pc' = "done"
    /\ UNCHANGED <<otherVars, callVars, req, escaped, key, acqVars, bookVars>>


(* ------------------------------------------------------------------ *)
(* Collect: acquiring the utterance                                    *)
(* ------------------------------------------------------------------ *)
\* const delays = [300, 500, 1000, 2000] (voice_v2), [200, 400, 800] (hf-only)
Delays(v) ==
    CASE v = "v2" -> <<300, 500, 1000, 2000>>
      [] v = "v2hf" -> <<200, 400, 800>>
      [] OTHER -> <<>>

\* download attempts a version makes at most: one per delay, or the single
\* fetch of voice.js
MaxAttempts(v) == IF v \in {"v2", "v2hf"} THEN Len(Delays(v)) ELSE 1

\* the providers a version tries, in order
Chain(v) ==
    CASE v = "v2" -> <<"hf", "gladia", "openai">>
      [] v = "v2hf" -> <<"hf">>
      [] OTHER -> <<"whisper">>

\* const lang = req.query.lang || "1"  (server.js: || "2")
LangParam(v, r) ==
    IF r.lang = "none" THEN (IF v = "server" THEN "2" ELSE "1") ELSE r.lang

\* a Collect step that transcribes whenever a recording came with the request
TranscribesAnyRecording(v, r) == v # "server" /\ r.recordingUrl

\* if (lang === "3" && recordingUrl) utterance = await transcribeAudioFromTwilio(...)
Transcribes(v, r) == v # "server" /\ LangParam(v, r) = "3" /\ r.recordingUrl

\* versions that test `if (!utterance)` before extracting
ChecksUtterance(v) == v \in {"v2", "v2hf", "voice"}

AfterAcquire(v) == IF ChecksUtterance(v) THEN "check" ELSE "extract"

\* if (step === "collect") { lang, utterance, from, recordingUrl ... }
HandlerCollect ==
    /\ pc = "handler"
    /\ req.method = "POST"
    /\ StepOf(req) = "collect"
    /\ utterance' = IF req.speech.present THEN req.speech.words ELSE {}
    /\ pc' = IF Transcribes(variant, req) THEN "download" ELSE AfterAcquire(variant)
    /\ UNCHANGED <<otherVars, callVars, req, respVars, key, transcription, returned, dl,
                   tempFile, chainPos, calls, results, running, hfFetches, bookVars>>

\* an exception inside transcribeAudioFromTwilio: its catch returns "", except
\* in the first voice.js version, which has no catch and lets it reach the handler
TranscribeThrows ==
    IF variant = "voice1"
    THEN /\ pc' = "fatal"
         /\ UNCHANGED <<utterance, returned>>
    ELSE /\ returned' = [done |-> TRUE, value |-> {}]
         /\ utterance' = {}
         /\ pc' = AfterAcquire(variant)

\* mutant: the loop has no `if (resp.ok) break`
DownloadNextNoBreak(v, log) ==
    LET last == log[Len(log)] IN
    IF last = "throw" THEN "throw"
    ELSE IF Len(log) < MaxAttempts(v) THEN "download"
    ELSE IF last = "ok" THEN "save"
    ELSE "throw"

\* where the download loop goes after the attempts logged so far:
\* `if (resp.ok) break`, the loop bound, `if (!resp || !resp.ok) throw`
DownloadNext(v, log) ==
    LET last == log[Len(log)] IN
    IF last = "ok" THEN "save"
    ELSE IF last = "throw" THEN "throw"
    ELSE IF Len(log) < MaxAttempts(v) THEN "download"
    ELSE "throw"

\* resp = await fetch(url, ...): one download attempt
DownloadAttempt ==
    /\ pc = "download"
    /\ \E o \in {"ok", "fail", "throw"} :
        /\ dl' = Append(dl, o)
        /\ LET next == DownloadNext(variant, dl') IN
           IF next = "throw"
           THEN TranscribeThrows
           ELSE /\ pc' = next
                /\ UNCHANGED <<utterance, returned>>
    /\ UNCHANGED <<otherVars, callVars, req, respVars, key, transcription, tempFile,
                   chainPos, calls, results, running, hfFetches, bookVars>>

\* const buffer = await resp.arrayBuffer(); fs.writeFileSync(tempFile, ...)
SaveRecording ==
    /\ pc = "save"
    /\ \E o \in {"ok", "throw"} :
        IF o = "ok"
        THEN /\ tempFile' = "written"
             /\ chainPos' = 1
             /\ pc' = "provider"
             /\ UNCHANGED <<utterance, returned>>
        ELSE /\ TranscribeThrows
             /\ UNCHANGED <<tempFile, chainPos>>
    /\ UNCHANGED <<otherVars, callVars, req, respVars, key, transcription, dl, calls,
                   results, running, hfFetches, bookVars>>

\* the chain calls the provider it is at
ProviderCall ==
    /\ pc = "provider"
    /\ calls' = Append(calls, Chain(variant)[chainPos])
    /\ running' = running \cup {Chain(variant)[chainPos]}
    /\ pc' = "awaiting"
    /\ UNCHANGED <<otherVars, callVars, req, respVars, key, utterance, transcription,
                   returned, dl, tempFile, chainPos, results, hfFetches, bookVars>>

\* `if (!transcription) { transcription = await next provider }`: the position
\* of the provider to call after `result`, 0 when the chain is over
NextProvider(v, pos, result) ==
    IF result # {} \/ pos = Len(Chain(v)) THEN 0 ELSE pos + 1

\* the provider at chainPos returned `result` to the chain
ProviderReturns(result) ==
    /\ transcription' = result
    /\ results' = Append(results, result)
    /\ running' = running \ {Chain(variant)[chainPos]}
    /\ chainPos' = NextProvider(variant, chainPos, result)
    /\ pc' = IF chainPos' = 0 THEN "cleanup" ELSE "provider"

\* what transcribeWithHuggingFace does with one reply of the endpoint:
\* "retry" on 503 (it calls itself again), else the value it returns
HuggingFaceOn(reply) ==
    IF reply.status = 503 THEN "retry" ELSE "return"

\* replies of the Hugging Face endpoint: 200 with or without text, 503 while
\* the model loads, another error status, or a failed fetch (status 0)
HuggingFaceReplies ==
    {[status |-> 200, text |-> t] : t \in ProviderTexts \cup {{}}}
    \cup {[status |-> st, text |-> {}] : st \in {503, 500, 0}}

\* values of an API key of the environment: "" when it is not set
KeyValues == {"", "set"}

\* the requests to the endpoint are counted up to MaxLoading + 1, which stands
\* for any larger number
CountFetch(n) == IF n <= MaxLoading THEN n + 1 ELSE n

\* const hfToken = process.env.HUGGINGFACE_API_KEY || ""
ReadHuggingFaceKey ==
    /\ pc = "awaiting"
    /\ Chain(variant)[chainPos] = "hf"
    /\ \E k \in KeyValues : hfToken' = k
    /\ pc' = "hf"
    /\ UNCHANGED <<sideVars, calendarVars, gladiaKey, attempts, poll, callVars, req,
                   respVars, key, acqVars, bookVars>>

\* transcribeWithHuggingFace: one request to the endpoint, with or without
\* the Authorization header, and what follows; on 503 it sleeps and calls itself
transcribeWithHuggingFace ==
    /\ pc = "hf"
    /\ \E reply \in HuggingFaceReplies :
        /\ hfFetches' = CountFetch(hfFetches)
        /\ hfToken' = "unread"
        /\ IF HuggingFaceOn(reply) = "retry"
           THEN /\ pc' = "awaiting"
                /\ UNCHANGED <<transcription, results, running, chainPos>>
           ELSE ProviderReturns(reply.text)
    /\ UNCHANGED <<sideVars, calendarVars, gladiaKey, attempts, poll, callVars, req,
                   respVars, key, utterance, returned, dl, tempFile, calls, bookVars>>

\* const gladiaKey = process.env.GLADIA_API_KEY || ""
ReadGladiaKey ==
    /\ pc = "awaiting"
    /\ Chain(variant)[chainPos] = "gladia"
    /\ \E k \in KeyValues : gladiaKey' = k
    /\ pc' = "gladia"
    /\ UNCHANGED <<sideVars, calendarVars, hfToken, attempts, poll, callVars, req,
                   respVars, key, acqVars, bookVars>>

\* transcribeWithGladia returns: its locals are gone
GladiaReturns(result) ==
    /\ ProviderReturns(result)
    /\ gladiaKey' = "unread"
    /\ attempts' = 0
    /\ poll' = NoPoll

\* a provider that asks Gladia even without a key
GladiaNeverSkips(k) == FALSE

\* if (!gladiaKey) { ...; return null; }
GladiaSkips(k) == k = ""

\* transcribeWithGladia: the key check
transcribeWithGladia ==
    /\ pc = "gladia"
    /\ IF GladiaSkips(gladiaKey)
       THEN GladiaReturns({})
       ELSE /\ pc' = "upload"
            /\ UNCHANGED <<transcription, results, running, chainPos, gladiaKey, attempts,
                           poll>>
    /\ UNCHANGED <<sideVars, calendarVars, hfToken, callVars, req, respVars, key,
                   utterance, returned, dl, tempFile, calls, hfFetches, bookVars>>

\* fetch(".../v2/upload"): if (!uploadResponse.ok) throw, caught: return null
GladiaUpload ==
    /\ pc = "upload"
    /\ \E o \in {"ok", "fail"} :
        IF o = "ok"
        THEN /\ pc' = "job"
             /\ UNCHANGED <<transcription, results, running, chainPos, gladiaKey, attempts,
                            poll>>
        ELSE GladiaReturns({})
    /\ UNCHANGED <<sideVars, calendarVars, hfToken, callVars, req, respVars, key,
                   utterance, returned, dl, tempFile, calls, hfFetches, bookVars>>

\* fetch(".../v2/transcription"): the job is created, or the throw is caught;
\* let attempts = 0
GladiaRequestJob ==
    /\ pc = "job"
    /\ \E o \in {"ok", "fail"} :
        IF o = "ok"
        THEN /\ pc' = "polling"
             /\ attempts' = 0
             /\ UNCHANGED <<transcription, results, running, chainPos, gladiaKey, poll>>
        ELSE GladiaReturns({})
    /\ UNCHANGED <<sideVars, calendarVars, hfToken, callVars, req, respVars, key,
                   utterance, returned, dl, tempFile, calls, hfFetches, bookVars>>

\* replies to a poll: done with or without text, error, processing, or a
\* fetch that fails
PollReplies ==
    {[status |-> "done", text |-> t] : t \in ProviderTexts \cup {{}}}
    \cup {[status |-> st, text |-> {}] : st \in {"error", "processing", "threw"}}

\* while (attempts < 30) { statusResponse = await fetch(...); statusData = ... }
PollGladia ==
    /\ pc = "polling"
    /\ attempts < MaxPolls
    /\ \E p \in PollReplies : poll' = p
    /\ pc' = "polled"
    /\ UNCHANGED <<sideVars, calendarVars, hfToken, gladiaKey, attempts, callVars, req,
                   respVars, key, acqVars, bookVars>>

\* a loop that goes on polling after a 'done' without text
PollNextPastDone(p, n) ==
    IF p.status = "done" /\ p.text # {} THEN [to |-> "return", value |-> p.text]
    ELSE IF p.status \in {"error", "threw"} THEN [to |-> "return", value |-> {}]
    ELSE IF n + 1 < MaxPolls THEN [to |-> "poll", value |-> {}]
    ELSE [to |-> "return", value |-> {}]

\* the loop after reply p to poll number n + 1: 'done' breaks and the text, if
\* any, is returned; 'error' throws (null); otherwise sleep, attempts++, and
\* null once the loop condition fails
PollNext(p, n) ==
    IF p.status = "done" THEN [to |-> "return", value |-> p.text]
    ELSE IF p.status \in {"error", "threw"} THEN [to |-> "return", value |-> {}]
    ELSE IF n + 1 < MaxPolls THEN [to |-> "poll", value |-> {}]
    ELSE [to |-> "return", value |-> {}]

\* the body of the polling loop after the reply
GladiaOnStatus ==
    /\ pc = "polled"
    /\ LET next == PollNext(poll, attempts) IN
       IF next.to = "poll"
       THEN /\ attempts' = attempts + 1
            /\ pc' = "polling"
            /\ UNCHANGED <<transcription, results, running, chainPos, gladiaKey, poll>>
       ELSE GladiaReturns(next.value)
    /\ UNCHANGED <<sideVars, calendarVars, hfToken, callVars, req, respVars, key,
                   utterance, returned, dl, tempFile, calls, hfFetches, bookVars>>

\* transcribeWithOpenAIWhisper: transcription.text || "", or "" on any failure
transcribeWithOpenAIWhisper ==
    /\ pc = "awaiting"
    /\ Chain(variant)[chainPos] = "openai"
    /\ \E t \in ProviderTexts \cup {{}} : ProviderReturns(t)
    /\ UNCHANGED <<otherVars, callVars, req, respVars, key, utterance, returned, dl,
                   tempFile, calls, hfFetches, bookVars>>

\* voice.js: await openai.audio.transcriptions.create(...) called in place;
\* a rejection is not caught before the function's own catch
WhisperInPlace ==
    /\ pc = "awaiting"
    /\ Chain(variant)[chainPos] = "whisper"
    /\ \E o \in {"ok", "throw"} :
        IF o = "ok"
        THEN /\ \E t \in ProviderTexts \cup {{}} : ProviderReturns(t)
             /\ UNCHANGED <<utterance, returned>>
        ELSE /\ TranscribeThrows
             /\ running' = running \ {"whisper"}
             /\ UNCHANGED <<transcription, results, chainPos>>
    /\ UNCHANGED <<otherVars, callVars, req, respVars, key, dl, tempFile, calls,
                   hfFetches, bookVars>>

\* fs.unlinkSync(tempFile); return transcription || ""
Cleanup ==
    /\ pc = "cleanup"
    /\ \E o \in {"ok", "throw"} :
        IF o = "ok"
        THEN /\ tempFile' = "removed"
             /\ returned' = [done |-> TRUE, value |-> transcription]
             /\ utterance' = transcription
             /\ pc' = AfterAcquire(variant)
        ELSE /\ TranscribeThrows
             /\ UNCHANGED tempFile
    /\ UNCHANGED <<otherVars, callVars, req, respVars, key, transcription, dl, chainPos,
                   calls, results, running, hfFetches, bookVars>>

\* the text said when no utterance was obtained
AcquisitionApology(v) ==
    IF v = "voice" THEN "Sorry, I did not understand you. Please try again."
    ELSE "Sorry, I could not understand your message. Please try again later."

\* the locale the acquisition apology is said in
AcquisitionApologyLocale(v, lang) == "en-US"

\* if (!utterance) { vr.say(apology); res.send(vr.toString()); return; }
CheckUtterance ==
    /\ pc = "check"
    /\ IF utterance = {}
       THEN /\ vr' = Append(vr, Say(AcquisitionApologyLocale(variant, LangParam(variant, req)),
                                     AcquisitionApology(variant)))
            /\ sent' = Append(sent, Xml(vr'))
            /\ pc' = "done"
       ELSE /\ pc' = "extract"
            /\ UNCHANGED <<vr, sent>>
    /\ UNCHANGED <<otherVars, callVars, req, escaped, key, acqVars, bookVars>>


(* ------------------------------------------------------------------ *)
(* Collect: extracting the intent                                      *)
(* ------------------------------------------------------------------ *)
\* versions that put a past year back to the current one
CorrectsYear(v) == v \in {"v2", "v2hf"}

\* const d = new Date(whenISO);
\* if (d.getFullYear() < currentYear) { d.setFullYear(currentYear); whenISO = d.toISOString(); }
YearCorrected(d) ==
    IF d.kind = "date" /\ d.year < CurrentYear THEN SetFullYear(d, CurrentYear) ELSE d

\* the try block completes: the call returned and JSON.parse and data.date_iso
\* did not throw
PrimarySucceeds(reply) == reply.kind = "json"

\* whenISO = data.date_iso (and the year correction where coded)
PrimaryDate(v, reply) ==
    IF CorrectsYear(v) THEN YearCorrected(reply.date) ELSE reply.date

\* name = data.name || "Patient"
PrimaryName(reply) == IF reply.name = "none" THEN "Patient" ELSE reply.name

\* the fallback runs chrono for every language, except in voice_v2 where it
\* runs it for lang 1 and 2 only
RunsChrono(v, lang) == v \in {"v2", "v2hf"} => lang \in {"1", "2"}

\* whenISO = parsed ? parsed.toISOString() : new Date(Date.now() + 24h).toISOString()
FallbackDate(v, lang, chrono) ==
    IF RunsChrono(v, lang) /\ chrono # NoDate THEN chrono ELSE Tomorrow

\* utterance.match(/je (suis|m'appelle)\s+([A-Za-z...'-]+)/i): the name matched,
\* "none" when the pattern does not match
MatchIntroduction(text) == IF "je suis Jean" \in text THEN "Jean" ELSE "none"

\* name = "Patient"; server.js takes the name after "je suis" / "je m'appelle"
FallbackName(v, intro) ==
    IF v = "server" /\ intro # "none" THEN intro ELSE "Patient"

\* chrono.parseDate(utterance, new Date(), { forwardDate: true }); server.js
\* calls chrono.parseDate(utterance) with no option
ForwardDate(v) == v # "server"

\* the chrono.parseDate call of the fallback
ChronoCall(v, lang, chrono) ==
    IF RunsChrono(v, lang)
    THEN [ran |-> TRUE, forwardDate |-> ForwardDate(v), result |-> chrono]
    ELSE NoChrono

\* try { completion = await openai.chat.completions.create(...); JSON.parse ... }
\* catch (e) { chrono fallback }
Extract ==
    /\ pc = "extract"
    /\ extractCalls' = extractCalls + 1
    /\ \E reply \in Replies, chrono \in ChronoOn(utterance) :
        IF PrimarySucceeds(reply)
        THEN /\ path' = "primary"
             /\ dateIso' = reply.date
             /\ whenISO' = PrimaryDate(variant, reply)
             /\ name' = PrimaryName(reply)
             /\ chronoCall' = NoChrono
        ELSE /\ path' = "fallback"
             /\ dateIso' = NoDate
             /\ chronoCall' = ChronoCall(variant, LangParam(variant, req), chrono)
             /\ whenISO' = FallbackDate(variant, LangParam(variant, req), chrono)
             /\ name' = FallbackName(variant, MatchIntroduction(utterance))
    /\ pc' = "commit"
    /\ UNCHANGED <<otherVars, callVars, req, respVars, key, acqVars, inserts, insertResult,
                   minutesEnv, event>>

(* ------------------------------------------------------------------ *)
(* Collect: committing the booking and answering                       *)
(* ------------------------------------------------------------------ *)
\* the confirmation of a booking
ConfirmVerbs(v, lang, who) ==
    IF v = "server"
    THEN << Say(Locale(LangOfKey(v, lang)), "confirm") >>
    ELSE IF lang = "3"
         THEN IF v \in {"v2", "v2hf"}
              THEN << Play("confirm-he.mp3"), Say("en-US", "confirm_he") >>
              ELSE << Play("confirm-he.mp3") >>
         ELSE << SayTo(Locale(LangOfKey(v, lang)),
                       IF lang \in {"1", "2"} THEN "confirm" ELSE "none", who) >>

\* the text said when the booking could not be made
SchedulingApology == "Sorry, there was an issue scheduling your appointment."

\* an exception of createCalendarEvent: the handlers of voice.js and
\* voice_v2.js catch it and say the scheduling apology; server.js does not
CommitThrows ==
    IF variant = "server"
    THEN /\ escaped' = TRUE
         /\ pc' = "done"
         /\ UNCHANGED <<vr, sent>>
    ELSE /\ vr' = Append(vr, Say("en-US", SchedulingApology))
         /\ sent' = Append(sent, Xml(vr'))
         /\ pc' = "done"
         /\ UNCHANGED escaped

\* createCalendarEvent reaches calendar.events.insert: start.toISOString()
\* did not throw (it throws a RangeError on an invalid date)
ReachesInsert(date) == date.kind = "date"

\* values of process.env.DEFAULT_APPT_MINUTES: not set, a number, not a number
EnvValues == {"unset", "45", "abc"}

\* process.env.DEFAULT_APPT_MINUTES || "30"
MinutesText(env) == IF env = "unset" THEN "30" ELSE env

\* parseInt(text, 10) gives a number; it gives NaN for a text without digits
ParsesInt(text) == text \in {"30", "45"}

\* parseInt(text, 10), for a text it parses
ParseInt(text) == IF text = "45" THEN 45 ELSE 30

\* days of the months of year y before month m
RECURSIVE DaysBeforeMonth(_, _)
DaysBeforeMonth(y, m) ==
    IF m = 1 THEN 0 ELSE DaysBeforeMonth(y, m - 1) + DaysInMonth(y, m - 1)

\* leap years before year y
LeapYearsBefore(y) == ((y - 1) \div 4) - ((y - 1) \div 100) + ((y - 1) \div 400)

\* start.getTime() in minutes: minutes from 1 January 1970 to the date
GetTime(d) ==
    ((d.year - 1970) * 365 + (LeapYearsBefore(d.year) - LeapYearsBefore(1970))
     + DaysBeforeMonth(d.year, d.month) + (d.day - 1)) * 1440

\* an appointment of the same length whatever was configured
EndTimeHalfHour(start, minutes) == start + 30

\* new Date(start.getTime() + minutes * 60000), in minutes
EndTime(start, minutes) == start + minutes

\* const event = { summary, description, start: {dateTime}, end: {dateTime} }
CalendarEvent(who, startISO, minutes, phone) ==
    [summary |-> who,
     start |-> GetTime(startISO),
     end |-> EndTime(GetTime(startISO), minutes),
     description |-> <<"RDV automatique - patient : ", phone>>]

\* a calendar that drops an event equal to one it holds
InsertOnce(cal, ev) ==
    IF \E i \in 1..Len(cal) : cal[i] = ev THEN cal ELSE Append(cal, ev)

\* calendar.events.insert({ calendarId, requestBody: event }): the request
\* carries no id, the calendar stores one more event
InsertEvent(cal, ev) == Append(cal, ev)

\* a commit that does not await the insert call: it renders and sends the
\* confirmation while the call is in flight
createCalendarEventUnawaited ==
    /\ pc = "commit"
    /\ minutesEnv' = "unset"
    /\ IF ReachesInsert(whenISO)
       THEN /\ event' = CalendarEvent(name, whenISO, 30, req.from)
            /\ inserts' = inserts + 1
            /\ pc' = "inserting"
            /\ vr' = vr \o ConfirmVerbs(variant, LangParam(variant, req), name)
            /\ sent' = Append(sent, Xml(vr'))
            /\ UNCHANGED escaped
       ELSE /\ CommitThrows
            /\ UNCHANGED <<inserts, event>>
    /\ UNCHANGED <<otherVars, callVars, req, key, acqVars, extractCalls, path, whenISO, name,
                   dateIso, chronoCall, insertResult>>

\* createCalendarEvent up to the insert call: end.toISOString() throws a
\* RangeError when minutes is NaN
createCalendarEvent ==
    /\ pc = "commit"
    /\ \E env \in EnvValues :
        /\ minutesEnv' = env
        /\ IF ReachesInsert(whenISO) /\ ParsesInt(MinutesText(env))
           THEN /\ event' = CalendarEvent(name, whenISO, ParseInt(MinutesText(env)),
                                          req.from)
                /\ inserts' = inserts + 1
                /\ pc' = "inserting"
                /\ UNCHANGED respVars
           ELSE /\ CommitThrows
                /\ UNCHANGED <<inserts, event>>
    /\ UNCHANGED <<otherVars, callVars, req, key, acqVars, extractCalls, path, whenISO, name,
                   dateIso, chronoCall, insertResult>>

\* new Date(whenISO).toLocaleString(locale, { timeZone: process.env.CLINIC_TIMEZONE })
\* returns the text, or throws a RangeError when the runtime does not know
\* the time zone named by the environment
FormatOutcomes == {"text", "throws"}

\* whether rendering the confirmation formats the date: the handlers of
\* voice_v2.js and the second one of voice.js always do, the first one of
\* voice.js for lang other than 3, server.js says fixed texts
FormatsDate(v, lang) ==
    CASE v \in {"v2", "v2hf", "voice"} -> TRUE
      [] v = "voice1" -> lang # "3"
      [] OTHER -> FALSE

\* what the try block has appended to vr before the date is formatted:
\* voice_v2.js plays the Hebrew confirmation first
RenderedBeforeFormat(v, lang) ==
    IF v \in {"v2", "v2hf"} /\ lang = "3" THEN << Play("confirm-he.mp3") >> ELSE <<>>

\* the exception of the formatting is caught by the catch of the commit
RenderThrows ==
    /\ vr' = (vr \o RenderedBeforeFormat(variant, LangParam(variant, req)))
                 \o << Say("en-US", SchedulingApology) >>
    /\ sent' = Append(sent, Xml(vr'))
    /\ pc' = "done"
    /\ UNCHANGED escaped

\* the insert call returns or rejects; the handler renders and sends
InsertReturns ==
    /\ pc = "inserting"
    /\ \E o \in {"ok", "reject"}, f \in FormatOutcomes :
        /\ insertResult' = o
        /\ accepted' = IF o = "ok" THEN accepted + 1 ELSE accepted
        /\ created' = IF o = "ok" THEN InsertEvent(created, event) ELSE created
        /\ IF o = "reject"
           THEN CommitThrows
           ELSE IF variant = "server" /\ LangParam(variant, req) \notin {"1", "2", "3"}
                THEN \* LANGS[lang].code throws on an unknown lang
                     /\ escaped' = TRUE
                     /\ pc' = "done"
                     /\ UNCHANGED <<vr, sent>>
                ELSE IF FormatsDate(variant, LangParam(variant, req)) /\ f = "throws"
                     THEN RenderThrows
                     ELSE /\ vr' = vr \o ConfirmVerbs(variant, LangParam(variant, req), name)
                          /\ sent' = Append(sent, Xml(vr'))
                          /\ pc' = "done"
                          /\ UNCHANGED escaped
    /\ UNCHANGED <<sideVars, localVars, callVars, deliveries, req, key, acqVars, extractCalls, path,
                   whenISO, name, inserts, dateIso, chronoCall, minutesEnv, event>>

(* ------------------------------------------------------------------ *)
(* Specification                                                       *)
(* ------------------------------------------------------------------ *)
Next ==
    \/ PlatformRequest
    \/ DirectRequest
    \/ EndCall
    \/ HandlerNotPost
    \/ HandlerStart
    \/ HandlerLang
    \/ HandlerNoStep
    \/ HandlerCollect
    \/ DownloadAttempt
    \/ SaveRecording
    \/ ProviderCall
    \/ ReadHuggingFaceKey
    \/ transcribeWithHuggingFace
    \/ ReadGladiaKey
    \/ transcribeWithGladia
    \/ GladiaUpload
    \/ GladiaRequestJob
    \/ PollGladia
    \/ GladiaOnStatus
    \/ transcribeWithOpenAIWhisper
    \/ WhisperInPlace
    \/ Cleanup
    \/ CheckUtterance
    \/ Extract
    \/ createCalendarEvent
    \/ InsertReturns
    \/ HandlerCatch

Spec == Init /\ [][Next]_vars

(* ------------------------------------------------------------------ *)
(* Two concurrent Collect requests in transcribeAudioFromTwilio        *)
(* ------------------------------------------------------------------ *)
\* the versions that keep the recording in a /tmp file named after Date.now()
TempFileVariants == {"v2", "v2hf", "voice"}

ConcInit ==
    /\ Init
    /\ variant \in TempFileVariants

\* a millisecond passes
Tick ==
    /\ now < MaxClock
    /\ now' = now + 1
    /\ UNCHANGED <<mainVars, tokenVars, audioVars, tmp, cpc, cfile, cheard, cret>>

\* const tempFile = path.join("/tmp", `recording-v2-${Date.now()}.wav`)
NameTempFile(c) ==
    /\ cpc[c] = "start"
    /\ cfile' = [cfile EXCEPT ![c] = now]
    /\ cpc' = [cpc EXCEPT ![c] = "named"]
    /\ UNCHANGED <<mainVars, tokenVars, audioVars, now, tmp, cheard, cret>>

\* const buffer = await resp.arrayBuffer(); fs.writeFileSync(tempFile, buffer)
WriteTempFile(c) ==
    /\ cpc[c] = "named"
    /\ tmp' = [tmp EXCEPT ![cfile[c]] = c]
    /\ cpc' = [cpc EXCEPT ![c] = "saved"]
    /\ UNCHANGED <<mainVars, tokenVars, audioVars, now, cfile, cheard, cret>>

\* the provider reads tempFile (fs.readFileSync / createReadStream) and
\* transcribes what it holds; a missing file makes every provider fail
TranscribeTempFile(c) ==
    /\ cpc[c] = "saved"
    /\ cheard' = [cheard EXCEPT ![c] = tmp[cfile[c]]]
    /\ cpc' = [cpc EXCEPT ![c] = "transcribed"]
    /\ UNCHANGED <<mainVars, tokenVars, audioVars, now, tmp, cfile, cret>>

\* fs.unlinkSync(tempFile); return transcription || "": a missing file throws
\* ENOENT and the catch returns ""
UnlinkTempFile(c) ==
    /\ cpc[c] = "transcribed"
    /\ IF tmp[cfile[c]] = "none"
       THEN /\ cret' = [cret EXCEPT ![c] = "none"]
            /\ UNCHANGED tmp
       ELSE /\ tmp' = [tmp EXCEPT ![cfile[c]] = "none"]
            /\ cret' = [cret EXCEPT ![c] = cheard[c]]
    /\ cpc' = [cpc EXCEPT ![c] = "returned"]
    /\ UNCHANGED <<mainVars, tokenVars, audioVars, now, cfile, cheard>>

ConcNext ==
    \/ Tick
    \/ \E c \in Calls : NameTempFile(c)
    \/ \E c \in Calls : WriteTempFile(c)
    \/ \E c \in Calls : TranscribeTempFile(c)
    \/ \E c \in Calls : UnlinkTempFile(c)

SpecConc == ConcInit /\ [][ConcNext]_vars

(* ------------------------------------------------------------------ *)
(* One Collect callback delivered several times                        *)
(* ------------------------------------------------------------------ *)
\* the callbacks of a native-speech language that carry an utterance
RetryRequests ==
    Fields("POST", {"collect"}, {"1", "2"}, {"none"}, {[present |-> TRUE, words |-> {"hello"}]},
           {FALSE}, {"+15550100"})

\* the platform delivers a Collect callback
Deliver ==
    /\ pc = "idle"
    /\ \E r \in RetryRequests : req' = r
    /\ visited' = <<"start", "lang", "collect">>
    /\ pc' = "handler"
    /\ ResetRequest
    /\ FirstDelivery
    /\ UNCHANGED <<variant, follows, sideVars>>

\* the platform delivers the same callback once more; the handler keeps no
\* memory of the first delivery and the calendar keeps its events
Redeliver ==
    /\ pc = "done"
    /\ deliveries < MaxDeliveries
    /\ deliveries' = deliveries + 1
    /\ pc' = "handler"
    /\ ResetRequest
    /\ UNCHANGED <<callVars, req, sideVars, accepted, created>>

RetryNext ==
    \/ Deliver
    \/ Redeliver
    \/ HandlerCollect
    \/ CheckUtterance
    \/ Extract
    \/ createCalendarEvent
    \/ InsertReturns

SpecRetry == Init /\ [][RetryNext]_vars

(* ------------------------------------------------------------------ *)
(* The token routes                                                    *)
(* ------------------------------------------------------------------ *)
\* api/token.js, GET /api/token of server.js, GET /token of the token server
TokenRoutes == {"api/token.js", "server.js", "part_000"}

\* TWILIO_ACCOUNT_SID, TWILIO_API_KEY, TWILIO_API_SECRET, TWIML_APP_SID
Credentials == {"accountSid", "apiKey", "apiSecret", "appSid"}

\* the routes that test the credentials before building the token
ChecksCredentials(route) == route \in {"api/token.js", "server.js"}

\* if (!accountSid || !apiKey || !apiSecret || !appSid)
MissingCredential(creds) == creds # Credentials

\* new AccessToken(accountSid, apiKey, apiSecret, { identity }) throws when
\* one of its three arguments is missing; VoiceGrant accepts a missing sid
AccessTokenThrows(creds) == ~ ({"accountSid", "apiKey", "apiSecret"} \subseteq creds)

TokenInit ==
    /\ Init
    /\ variant = "server"

\* a client asks a route for a token, under some environment
TokenRequest ==
    /\ tpc = "idle"
    /\ \E r \in TokenRoutes, creds \in SUBSET Credentials :
        /\ tokenRoute' = r
        /\ credentials' = creds
    /\ tpc' = "check"
    /\ UNCHANGED <<mainVars, concVars, audioVars, tokenReply>>

\* if (a credential is missing) return res.status(500).json({ error })
CheckCredentials ==
    /\ tpc = "check"
    /\ IF ChecksCredentials(tokenRoute) /\ MissingCredential(credentials)
       THEN /\ tokenReply' = [status |-> 500, token |-> FALSE]
            /\ tpc' = "done"
       ELSE /\ tpc' = "grant"
            /\ UNCHANGED tokenReply
    /\ UNCHANGED <<mainVars, concVars, audioVars, tokenRoute, credentials>>

\* new VoiceGrant(...); new AccessToken(...); token.addGrant(voiceGrant): an
\* exception is answered with status 500, by the catch or by express
BuildToken ==
    /\ tpc = "grant"
    /\ IF AccessTokenThrows(credentials)
       THEN /\ tokenReply' = [status |-> 500, token |-> FALSE]
            /\ tpc' = "done"
       ELSE /\ tpc' = "sign"
            /\ UNCHANGED tokenReply
    /\ UNCHANGED <<mainVars, concVars, audioVars, tokenRoute, credentials>>

\* res.status(200).json({ token: token.toJwt() })
SendToken ==
    /\ tpc = "sign"
    /\ tokenReply' = [status |-> 200, token |-> TRUE]
    /\ tpc' = "done"
    /\ UNCHANGED <<mainVars, concVars, audioVars, tokenRoute, credentials>>

\* the route is ready for the next request
TokenDone ==
    /\ tpc = "done"
    /\ tpc' = "idle"
    /\ tokenRoute' = "none"
    /\ credentials' = {}
    /\ tokenReply' = NoTokenReply
    /\ UNCHANGED <<mainVars, concVars, audioVars>>

TokenNext ==
    \/ TokenRequest
    \/ CheckCredentials
    \/ BuildToken
    \/ SendToken
    \/ TokenDone

SpecToken == TokenInit /\ [][TokenNext]_vars

(* ------------------------------------------------------------------ *)
(* The audio endpoint                                                  *)
(* ------------------------------------------------------------------ *)
\* process.cwd() and the audio directory under it, as path segments
Cwd == <<"var", "task">>
AudioDir == Cwd \o <<"api", "audio">>

\* the prompts the voice handlers play
Prompts == {"welcome-he.mp3", "confirm-he.mp3", "press-3-he.mp3"}

\* the files of the deployment: the prompts deployed and the other files
FilesOn(deployed) ==
    {AudioDir \o <<a>> : a \in deployed}
    \cup {Cwd \o <<"api", "voice_v2.js">>, Cwd \o <<"package.json">>}

\* values of the file parameter, split at "/"
FileValues ==
    {<<a>> : a \in Prompts}
    \cup {<<"..", "voice_v2.js">>, <<"..", "..", "package.json">>, <<"..", "token.js">>}

\* path.normalize: ".." removes the segment before it
RECURSIVE Normalize(_)
Normalize(segs) ==
    IF segs = <<>> THEN <<>>
    ELSE LET front == Normalize(SubSeq(segs, 1, Len(segs) - 1))
             last == segs[Len(segs)]
         IN  IF last = ".."
             THEN (IF front = <<>> THEN <<>> ELSE SubSeq(front, 1, Len(front) - 1))
             ELSE Append(front, last)

\* path.join(process.cwd(), "api/audio", file)
Join(dir, segs) == Normalize(dir \o segs)

AudioInit ==
    /\ Init
    /\ variant = "v2"

\* a client asks for a file, under some deployment
AudioRequest ==
    /\ apc = "idle"
    /\ \E f \in FileValues, deployed \in SUBSET Prompts :
        /\ file' = f
        /\ assets' = deployed
    /\ apc' = "join"
    /\ UNCHANGED <<mainVars, concVars, tokenVars, filePath, audioReply>>

\* const filePath = path.join(process.cwd(), "api/audio", file)
JoinPath ==
    /\ apc = "join"
    /\ filePath' = Join(AudioDir, file)
    /\ apc' = "exists"
    /\ UNCHANGED <<mainVars, concVars, tokenVars, assets, file, audioReply>>

\* if (!fs.existsSync(filePath)) { res.status(404).send("Not found"); return; }
\* res.setHeader("Content-Type", "audio/mpeg"); fs.createReadStream(filePath).pipe(res)
ServeFile ==
    /\ apc = "exists"
    /\ audioReply' = IF filePath \notin FilesOn(assets)
                     THEN [status |-> 404, type |-> "text/html", body |-> <<>>]
                     ELSE [status |-> 200, type |-> "audio/mpeg", body |-> filePath]
    /\ apc' = "done"
    /\ UNCHANGED <<mainVars, concVars, tokenVars, assets, file, filePath>>

\* the endpoint is ready for the next request
AudioDone ==
    /\ apc = "done"
    /\ apc' = "idle"
    /\ assets' = {}
    /\ file' = <<>>
    /\ filePath' = <<>>
    /\ audioReply' = NoAudioReply
    /\ UNCHANGED <<mainVars, concVars, tokenVars>>

AudioNext ==
    \/ AudioRequest
    \/ JoinPath
    \/ ServeFile
    \/ AudioDone

SpecAudio == AudioInit /\ [][AudioNext]_vars


(* ------------------------------------------------------------------ *)
(* Properties                                                          *)
(* ------------------------------------------------------------------ *)
Done == pc = "done"
IsPost == req.method = "POST"
CollectDone == Done /\ IsPost /\ StepOf(req) = "collect"
LangDone == Done /\ IsPost /\ StepOf(req) = "lang"
V2 == variant \in {"v2", "v2hf"}

\* positions inside transcribeAudioFromTwilio
TranscribePcs == {"download", "save", "provider", "awaiting", "hf", "gladia", "upload",
                  "job", "polling", "polled", "cleanup"}

IsPrefix(s, t) == Len(s) <= Len(t) /\ \A i \in 1..Len(s) : s[i] = t[i]

\* C1: every Collect request of voice_v2 whose utterance is non-empty submits
\* exactly one calendar insert, whatever the model replied, and no request
\* submits more than one.
C1_ExactlyOneInsert ==
    variant = "v2" =>
          /\ inserts <= 1
          /\ (CollectDone /\ utterance # {}) => inserts = 1

\* C2: every POST request is answered with exactly one non-empty text/xml
\* response, and no exception leaves the handler unanswered.
C2_OneVoiceResponse ==
    (Done /\ IsPost) =>
        /\ ~escaped
        /\ Len(sent) = 1
        /\ sent[1].ctype = "text/xml"
        /\ sent[1].verbs # <<>>

\* C3: a request whose step is missing or is none of start, lang, collect gets
\* the Start response, the language prompt whose callback is step=lang.
C3_UnknownStepIsStart ==
    (Done /\ IsPost /\ req.step \notin {"start", "lang", "collect"}) =>
        sent = << Xml(StartVerbs(variant)) >>

\* C4: when the platform follows the callbacks, the steps of a call are visited
\* in the order start, lang, collect, each at most once: the Start response
\* names only a step=lang callback, the LanguageSelect response only a
\* step=collect callback, and a Collect response names no callback and holds
\* no gather or record.
C4_StepOrder ==
    /\ follows => IsPrefix(visited, <<"start", "lang", "collect">>)
    /\ (Done /\ IsPost /\ sent # <<>>) =>
        LET verbs == sent[Len(sent)].verbs
            steps == {cb.step : cb \in Callbacks(verbs)}
        IN /\ StepOf(req) = "start" => steps = {"lang"}
           /\ StepOf(req) = "lang" => steps = {"collect"}
           /\ StepOf(req) = "collect" =>
                /\ steps = {}
                /\ \A i \in 1..Len(verbs) : verbs[i].verb \notin {"gather", "record"}

\* a call went through the three steps by following the callbacks
C4_Witness ==
    /\ follows
    /\ visited = <<"start", "lang", "collect">>
    /\ Done
    /\ Len(sent) = 1

\* the languages whose keyword the claim names occur in the speech: "fran" for
\* French, "ivrit" or the Hebrew-script word for Hebrew
ClaimKeywordLangs(speech) ==
    {l \in {"fr", "he"} :
        \/ l = "fr" /\ Includes(speech, "fran")
        \/ l = "he" /\ (Includes(speech, "ivrit") \/ Includes(speech, "he_script"))}

\* the same with the keywords server.js looks for: "ivrit" or "hebrew"
KeywordLangs(v, speech) ==
    IF v = "server"
    THEN {l \in {"fr", "he"} :
            \/ l = "fr" /\ Includes(speech, "fran")
            \/ l = "he" /\ (Includes(speech, "ivrit") \/ Includes(speech, "hebrew"))}
    ELSE ClaimKeywordLangs(speech)

SelectedLang == LangOfKey(variant, key)

\* C5 as written: LanguageSelect selects the language of the digit alone, of
\* the keyword alone ("fran", "ivrit" or the Hebrew-script word), and English
\* when the input matches neither, in every version.
C5_SelectsAsWritten ==
    LangDone =>
        LET langs == ClaimKeywordLangs(LowerCased(req.speech)) IN
        /\ (req.digits \in {"1", "2", "3"} /\ langs = {}) =>
                SelectedLang = LangOfKey(variant, req.digits)
        /\ (req.digits = "none" /\ Cardinality(langs) = 1) => SelectedLang \in langs
        /\ (req.digits \notin {"1", "2", "3"} /\ langs = {}) => SelectedLang = "en"

\* C5 (amended): LanguageSelect selects the language of the digit alone, of the
\* keyword alone, and English when the input matches neither, the Hebrew
\* keywords being "ivrit" or the Hebrew-script word in voice.js and voice_v2.js
\* and "ivrit" or "hebrew" in server.js.
C5_SelectsLanguage ==
    LangDone =>
        LET langs == KeywordLangs(variant, LowerCased(req.speech)) IN
        /\ (req.digits \in {"1", "2", "3"} /\ langs = {}) =>
                SelectedLang = LangOfKey(variant, req.digits)
        /\ (req.digits = "none" /\ Cardinality(langs) = 1) => SelectedLang \in langs
        /\ (req.digits \notin {"1", "2", "3"} /\ langs = {}) => SelectedLang = "en"

\* Hebrew was selected from the Hebrew-script word alone
C5_Witness ==
    /\ LangDone
    /\ variant = "v2"
    /\ req.digits = "none"
    /\ req.speech.present
    /\ req.speech.words = {"he_script"}
    /\ SelectedLang = "he"

\* C6: a request whose Digits field is a language's digit selects that
\* language whatever the recognized speech contains.
C6_DigitFirst ==
    (LangDone /\ req.digits \in {"1", "2", "3"}) => key = req.digits

\* C7: if providers 1..k-1 return nothing and provider k returns text T, the
\* chain has invoked providers 1..k in order, each once and one at a time, and
\* transcribeAudioFromTwilio returns exactly T.
C7_ChainReturnsFirstText ==
    variant = "v2" =>
        /\ Cardinality(running) <= 1
        /\ IsPrefix(calls, Chain(variant))
        /\ \A k \in 1..Len(results) :
            (/\ pc \notin TranscribePcs
             /\ results[k] # {}
             /\ \A j \in 1..(k - 1) : results[j] = {}) =>
                /\ Len(calls) = k
                /\ returned = [done |-> TRUE, value |-> results[k]]

\* C8: when every provider fails, or anything else inside it does,
\* transcribeAudioFromTwilio returns the empty string and no exception
\* escapes it.
C8_NeverThrows ==
    (/\ dl # <<>>
     /\ pc \notin TranscribePcs
     /\ \A i \in 1..Len(results) : results[i] = {}) =>
        returned = [done |-> TRUE, value |-> {}]

\* C9: for one utterance the Hugging Face endpoint is called at most twice.
C9_AtMostTwoFetches == hfFetches <= 2

\* C10: the download makes at most one attempt per entry of the delay
\* sequence; an attempt is made only after failed ones; a successful attempt
\* ends the loop and the function goes on with the recording, and a failed one
\* is followed by another while entries remain.
C10_DownloadStopsAtSuccess ==
    [][(V2 /\ pc = "download" /\ dl' # dl) =>
        /\ \A i \in 1..Len(dl) : dl[i] = "fail"
        /\ Len(dl') <= Len(Delays(variant))
        /\ dl'[Len(dl')] = "ok" => pc' = "save"
        /\ (dl'[Len(dl')] = "fail" /\ Len(dl') < Len(Delays(variant))) => pc' = "download"
      ]_vars

\* two failed attempts, then the third one succeeds and the recording is saved
C10_Witness ==
    /\ variant = "v2"
    /\ dl = <<"fail", "fail", "ok">>
    /\ pc = "save"

(* ------------------------------------------------------------------ *)
(* Properties of the Collect step: acquisition, extraction, commit     *)
(* ------------------------------------------------------------------ *)
\* the language of the Collect request
ActiveLang == LangOfKey(variant, LangParam(variant, req))

\* the one response of the request says exactly the text `t`
SaysOnly(t) ==
    /\ Len(sent) = 1
    /\ Len(sent[1].verbs) = 1
    /\ sent[1].verbs[1].verb = "say"
    /\ sent[1].verbs[1].text = t

\* C11: a Collect request that obtained no utterance makes no extraction call
\* and no insert call, and answers with the acquisition-failure apology.
C11_NoUtteranceNoBooking ==
    (CollectDone /\ utterance = {}) =>
        /\ extractCalls = 0
        /\ inserts = 0
        /\ SaysOnly(AcquisitionApology(variant))

\* C12: the acquisition-failure apology of a Collect request carrying one of
\* the three languages is said in the locale of that language.
C12_ApologyInActiveLanguage ==
    (CollectDone /\ utterance = {} /\ extractCalls = 0 /\ SaysOnly(AcquisitionApology(variant))
       /\ ActiveLang \in {"en", "fr", "he"}) =>
        sent[1].verbs[1].language = Locale(ActiveLang)

\* C13: when the insert call fails the response ends with the scheduling
\* apology, whose text is not the acquisition apology, and exactly one insert
\* call was made.
C13_InsertFailureApology ==
    (CollectDone /\ insertResult = "reject") =>
        /\ inserts = 1
        /\ Len(sent) = 1
        /\ sent[1].verbs # <<>>
        /\ sent[1].verbs[Len(sent[1].verbs)].text = SchedulingApology
        /\ SchedulingApology # AcquisitionApology(variant)

\* the reply of the primary extractor named a valid date of a past year
PastYearReply ==
    /\ V2
    /\ path = "primary"
    /\ dateIso.kind = "date"
    /\ dateIso.year < CurrentYear

C15_StartTimeValid ==
    (variant # "server" /\ inserts > 0) =>
        /\ whenISO.kind = "date"
        /\ whenISO.year >= CurrentYear

\* C16: on the fallback path the date parser has run over the utterance with
\* the prefer-future option, the start time is the date it found or else the
\* current time plus 24 hours, and the booking is attempted.
C16_FallbackParses ==
    path = "fallback" =>
        /\ chronoCall.ran
        /\ chronoCall.forwardDate
        /\ whenISO = (IF chronoCall.result # NoDate THEN chronoCall.result ELSE Tomorrow)
        /\ pc \in {"commit", "inserting", "done"}
        /\ Done => inserts = 1

\* C17: a reply that is valid JSON but has no date_iso, or one that is not a
\* date, makes the fallback run.
C17_BadShapeRoutesToFallback ==
    (variant = "v2" /\ extractCalls > 0 /\ dateIso.kind \in {"undefined", "invalid"}) => path = "fallback"

\* the name a self-introduction in the utterance gives ("my name is X",
\* "I am X", "je suis X"), "none" without one
IntroducedName(text) ==
    IF "je suis Jean" \in text \/ "my name is Jean" \in text THEN "Jean" ELSE "none"

\* C18: on the fallback path the name is the one the caller introduced
\* themselves with, and "Patient" only without a self-introduction.
C18_FallbackName ==
    path = "fallback" =>
        name = (IF IntroducedName(utterance) # "none" THEN IntroducedName(utterance)
                ELSE "Patient")

\* C20: each of two concurrent Collect requests gets back the transcription of
\* its own recording, as it would when running alone.
C20_NoInterference ==
    \A c \in Calls : cpc[c] = "returned" => cret[c] = c

\* C19: on the fallback path of the voice handlers (where lang=3 is Hebrew)
\* the date parser runs only for English and French; for Hebrew it never runs
\* and the start time is the current time plus 24 hours.
C19_HebrewNeverParsed ==
    (variant # "server" /\ path = "fallback") =>
        /\ chronoCall.ran => ActiveLang \in {"en", "fr"}
        /\ ActiveLang = "he" => whenISO = Tomorrow

IsCollect == IsPost /\ StepOf(req) = "collect"

\* C21: within one Collect request the operations run one after the other:
\* a provider is called only after the download succeeded and the recording
\* was saved, the extraction only after the transcription is over, the commit
\* only after the extraction, and the response is sent only when the handler
\* is over and every insert call made has returned or failed.
C21_StrictlySequential ==
    IsCollect =>
        /\ calls # <<>> =>
              dl # <<>> /\ dl[Len(dl)] = "ok" /\ pc \notin {"download", "save"}
              /\ tempFile # "none"
        /\ extractCalls > 0 => running = {} /\ pc \notin TranscribePcs
        /\ (pc \in {"commit", "inserting"} \/ inserts > 0) =>
              extractCalls > 0 /\ path # "none" /\ pc # "extract"
        /\ sent # <<>> =>
              pc = "done" /\ running = {} /\ (inserts > 0 => insertResult # "none")

\* a request went through the five operations and was answered
C21_Witness ==
    /\ CollectDone
    /\ dl # <<>>
    /\ calls # <<>>
    /\ extractCalls > 0
    /\ insertResult = "ok"
    /\ sent # <<>>

\* C22: the commit is not idempotent: when a Collect callback was delivered n
\* times and the insert call of every delivery succeeded, the calendar holds
\* n events, one insert call having been made per delivery.
C22_NotIdempotent ==
    /\ (Done /\ insertResult = "ok") => inserts = 1
    /\ (Done /\ accepted = deliveries) => Len(created) = deliveries

\* the callback was delivered twice and the calendar holds the same event twice
C22_Witness ==
    /\ Done
    /\ deliveries = 2
    /\ accepted = 2
    /\ Len(created) = 2
    /\ created[1] = created[2]

\* C23: a Collect request for English or French (lang 1 or 2) whose insert
\* call succeeded is answered by one response holding one spoken confirmation,
\* in the locale of that language, that names the extracted patient; no
\* apology is rendered.
C23_ConfirmationNamesPatient ==
    (CollectDone /\ LangParam(variant, req) \in {"1", "2"} /\ ActiveLang \in {"en", "fr"}
     /\ name # "none" /\ insertResult = "ok") =>
        sent = << Xml(<< SayTo(Locale(ActiveLang), "confirm", name) >>) >>

\* d of the claim: the configured duration, 30 when none is configured
ConfiguredMinutes == IF minutesEnv = "45" THEN 45 ELSE 30

\* C24: the event handed to the calendar starts at the extracted start time,
\* ends d minutes later, d being the configured default duration (30 when
\* DEFAULT_APPT_MINUTES is not set), and its description holds the caller's
\* phone number.
C24_EventWindow ==
    event # NoEvent =>
        /\ whenISO.kind = "date"
        /\ event.start = GetTime(whenISO)
        /\ event.end - event.start = ConfiguredMinutes
        /\ \E i \in 1..Len(event.description) : event.description[i] = req.from

\* an event of 45 configured minutes was accepted for a caller with a number
C24_Witness ==
    /\ event # NoEvent
    /\ minutesEnv = "45"
    /\ req.from = "+15550100"
    /\ insertResult = "ok"
    /\ event.end = event.start + 45

\* the response of the request has a verb `v`
HasVerb(v) ==
    sent # <<>> /\ \E i \in 1..Len(sent[1].verbs) : sent[1].verbs[i].verb = v

C26_TranscribesOnlyHebrewRecording ==
    /\ (dl # <<>> \/ calls # <<>> \/ hfFetches > 0 \/ tempFile # "none") =>
          IsCollect /\ LangParam(variant, req) = "3" /\ req.recordingUrl
    /\ (IsCollect /\ LangParam(variant, req) \in {"1", "2"} /\ pc # "handler") =>
          /\ utterance = (IF req.speech.present THEN req.speech.words ELSE {})
          /\ dl = <<>>
          /\ calls = <<>>

\* a request for lang 1 came with a recording URL and was answered from its
\* speech field
C26_Witness ==
    /\ CollectDone
    /\ LangParam(variant, req) = "1"
    /\ req.recordingUrl
    /\ utterance = {"hello"}
    /\ dl = <<>>
    /\ extractCalls > 0

\* C27: every token route answers with an error status and no token when one
\* of the four credentials is missing, and with status 200 and a token when
\* all four are present.
C27_TokenNeedsAllCredentials ==
    tpc = "done" =>
        IF credentials = Credentials
        THEN tokenReply.status = 200 /\ tokenReply.token
        ELSE tokenReply.status >= 400 /\ ~ tokenReply.token

\* C28: every callback URL a voice_v2 handler emits targets /api/voice_v2
\* and every callback URL a voice handler emits targets /api/voice.
C28_CallbacksStayOnVersion ==
    \A i \in 1..Len(sent) : \A cb \in Callbacks(sent[i].verbs) :
        /\ variant \in {"v2", "v2hf"} => cb.target = "/api/voice_v2"
        /\ variant \in {"voice", "voice1"} => cb.target = "/api/voice"

\* voice_v2 answered LanguageSelect with a callback to Collect
C28_Witness ==
    /\ variant = "v2"
    /\ LangDone
    /\ sent # <<>>
    /\ \E cb \in Callbacks(sent[1].verbs) : cb.step = "collect"

\* the file parameter names a prompt deployed in the audio directory
NamesAsset == Len(file) = 1 /\ file[1] \in assets

\* C29: the audio endpoint answers 404 when the file parameter names no asset
\* of the audio directory, and otherwise sends that asset, a file inside the
\* audio directory, with an audio content type; it never sends a file from
\* outside the directory.
C29_ServesPromptsOnly ==
    apc = "done" =>
        IF NamesAsset
        THEN /\ audioReply.status = 200
             /\ audioReply.type = "audio/mpeg"
             /\ audioReply.body = AudioDir \o file
        ELSE /\ audioReply.status = 404
             /\ audioReply.body = <<>>

\* C30: when every download attempt of a Collect request failed, no provider
\* was called, the utterance is empty, the response is the acquisition
\* apology and no insert call was made.
C30_DownloadExhaustion ==
    (CollectDone /\ dl # <<>> /\ \A i \in 1..Len(dl) : dl[i] # "ok") =>
        /\ calls = <<>>
        /\ utterance = {}
        /\ SaysOnly(AcquisitionApology(variant))
        /\ inserts = 0

\* C31: with GLADIA_API_KEY unset transcribeWithGladia makes no network
\* request (no upload, no job, no poll), returns null, and the chain goes on to
\* OpenAI Whisper; with HUGGINGFACE_API_KEY unset transcribeWithHuggingFace
\* still makes its request.
C31_GladiaNeedsKey ==
    [][ /\ (pc = "gladia" /\ gladiaKey = "") =>
              /\ pc' = "provider"
              /\ transcription' = {}
              /\ Chain(variant)[chainPos'] = "openai"
        /\ pc' \in {"upload", "job", "polling", "polled"} => gladiaKey # ""
        /\ (pc = "hf" /\ hfToken = "") =>
              hfFetches' = CountFetch(hfFetches) ]_vars

C31_Witness ==
    /\ "gladia" \in running
    /\ gladiaKey = ""
    /\ hfFetches > 0
    /\ pc = "gladia"

\* C32: the Gladia polling loop polls at most 30 times for one utterance: it
\* stops at the first 'done' and at the first 'error', and it returns null when
\* 30 polls passed without 'done' or when 'done' carried no text, so that the
\* chain goes on to the next provider.
C32_GladiaPollsAtMostThirty ==
    [][ /\ pc' = "polled" => attempts < MaxPolls
        /\ pc = "polled" =>
              /\ poll.status = "done" =>
                    pc' # "polling" /\ transcription' = poll.text
              /\ poll.status = "error" =>
                    pc' # "polling" /\ transcription' = {}
              /\ (poll.status = "processing" /\ attempts + 1 = MaxPolls) =>
                    pc' # "polling" /\ transcription' = {}
              /\ (pc' # "polling" /\ transcription' = {}) =>
                    pc' = "provider" /\ Chain(variant)[chainPos'] = "openai" ]_vars

C32_Witness ==
    /\ pc = "polled"
    /\ attempts = MaxPolls - 1
    /\ poll.status = "processing"

\* every step of the handler that can be taken is taken: each external call
\* returns, with one of its replies
SpecLive == Init /\ [][Next]_vars /\ WF_vars(Next)

\* C33: every Collect request eventually sends its response, provided each
\* external call returns: no sequence of replies keeps the request retrying
\* forever.
C33_CollectTerminates ==
    (IsCollect /\ pc = "handler") ~> (IsCollect /\ pc = "done" /\ Len(sent) = 1)

\* the response holds a verb with text t
SaysText(t) ==
    sent # <<>> /\ \E i \in 1..Len(sent[1].verbs) : sent[1].verbs[i].text = t

\* C34: the scheduling-failure apology is rendered only when no booking was
\* created: a Collect request whose insert succeeded is answered without it,
\* even when rendering the confirmation throws after the insert.
C34_ApologyOnlyWithoutBooking ==
    (CollectDone /\ SaysText(SchedulingApology)) =>
        insertResult # "ok" /\ created = <<>>

\* the outcome a verb of a Collect response stands for, "none" for no outcome
OutcomeOf(verb) ==
    CASE verb.verb = "play" /\ verb.text = "confirm-he.mp3" -> "confirmation"
      [] verb.verb = "say" /\ verb.text \in {"confirm", "confirm_he"} -> "confirmation"
      [] verb.verb = "say" /\ verb.text = AcquisitionApology(variant) -> "acquisition"
      [] verb.verb = "say" /\ verb.text = SchedulingApology -> "scheduling"
      [] verb.verb = "say" /\ verb.text = "apology_fatal" -> "generic"
      [] OTHER -> "none"

\* the outcomes a response carries
Outcomes(response) ==
    {OutcomeOf(response.verbs[i]) : i \in 1..Len(response.verbs)}

\* C35: every Collect response carries exactly one outcome, a confirmation,
\* the acquisition apology, the scheduling apology or the generic apology, and
\* none holds a confirmation element together with an apology.
C35_OneOutcome ==
    (CollectDone /\ sent # <<>>) =>
        /\ Cardinality(Outcomes(sent[1])) = 1
        /\ "none" \notin Outcomes(sent[1])

\* C36: a Start or LanguageSelect request has no external effect: no download,
\* no transcription, no call of the extractor and no calendar insert; an
\* insert is submitted only while a Collect request is handled.
C36_OnlyCollectHasEffects ==
    /\ (IsPost /\ req.step \in {"none", "start", "lang"}) =>
          /\ dl = <<>>
          /\ tempFile = "none"
          /\ calls = <<>>
          /\ hfFetches = 0
          /\ extractCalls = 0
          /\ chronoCall = NoChrono
          /\ inserts = 0
          /\ event = NoEvent
          /\ created = <<>>
    /\ (inserts > 0 \/ created # <<>>) => (IsPost /\ req.step = "collect")

C36_Witness ==
    /\ Done
    /\ IsPost
    /\ req.step = "lang"
    /\ req.speech.present
    /\ key = "3"
    /\ sent # <<>>

\* a verb that confirms the booking with a non-empty text in one of the three
\* supported languages: a Say with text and locale, or the Hebrew recording
Confirms(verb) ==
    \/ /\ verb.verb = "say"
       /\ verb.text \in {"confirm", "confirm_he"}
       /\ verb.language \in {"en-US", "fr-FR", "he-IL"}
    \/ verb.verb = "play" /\ verb.text = "confirm-he.mp3"

\* C37: whatever the lang of a Collect request, a missing lang is taken for
\* the primary language, English, and a booking is committed only together
\* with a confirmation whose text is non-empty and in one of the three
\* supported languages: no lang outside 1, 2, 3 yields a committed booking
\* with an empty or language-less confirmation.
C37_BookingHasConfirmation ==
    /\ (IsCollect /\ req.lang = "none") => ActiveLang = "en"
    /\ (CollectDone /\ insertResult = "ok") =>
          /\ Len(sent) = 1
          /\ sent[1].verbs # <<>>
          /\ \A i \in 1..Len(sent[1].verbs) : Confirms(sent[1].verbs[i])

\* C38: once transcribeAudioFromTwilio has written the temporary recording
\* file, the file has been removed by the time the function returns, on every
\* path, in voice_v2 and in the single-provider versions.
C38_TempFileRemoved ==
    tempFile = "written" => pc \in TranscribePcs

=============================================================================
